---- MODULE Spec2Model ----
(***************************************************************************)
(* Model of the assist `generate_from_impl_for_enum`                       *)
(* (crates/assists/src/handlers/generate_from_impl_for_enum.rs).           *)
(*                                                                         *)
(* The document is a sequence of text tokens; an offset counts tokens.     *)
(* The document consists of the text before the enum, the enum            *)
(* declaration (kept as its parsed tree, rendered by EnumText) and the     *)
(* text after the enum.  One invocation of the handler walks through       *)
(* Classify, Detect and Synthesize; the host then applies or discards the  *)
(* proposed edit.                                                          *)
(***************************************************************************)
EXTENDS Integers, Sequences, FiniteSets, TLC

VARIABLES enum, after, sema, cursor, pc, cls, dup, acc, accBefore, prev, lastApplied, nEdits

vars == <<enum, after, sema, cursor, pc, cls, dup, acc, accBefore, prev, lastApplied, nEdits>>

(* ---------------------------- bounds ----------------------------------- *)

MaxVariants == 2
MaxFields == 2
MaxEdits == 2

(* ------------------------- syntax tree --------------------------------- *)

\* an accessor of the syntax tree that returns None
Absent == "<absent>"

TypeTexts == {"u32", "U32", "String"}

VariantNames == <<"One", "Two", "Three", "Four">>

TupleField(ty) == [name |-> Absent, ty |-> ty]

RecordField(n, ty) == [name |-> n, ty |-> ty]

\* k further fields behind the first one
ExtraFields(kind, k) ==
    [i \in 1..k |-> IF kind = "Record" THEN RecordField("y", "String")
                                       ELSE TupleField("String")]

FieldLists(kind) ==
    IF kind = "Unit" THEN {<<>>}
    ELSE IF kind = "Tuple" THEN
        {<<>>}
        \cup {<<TupleField(ty)>> : ty \in TypeTexts \cup {Absent}}
        \cup {<<TupleField("u32")>> \o ExtraFields(kind, k) : k \in 1..(MaxFields - 1)}
    ELSE
        {<<>>}
        \cup {<<RecordField("x", ty)>> : ty \in {"u32", "String", Absent}}
        \cup {<<RecordField(Absent, "u32")>>}
        \cup {<<RecordField("x", "u32")>> \o ExtraFields(kind, k) : k \in 1..(MaxFields - 1)}

\* the variants the first position of the enum is drawn from
FirstVariants ==
    {[name |-> VariantNames[1], kind |-> k, fields |-> fl] :
        <<k, fl>> \in {kf \in {"Unit", "Tuple", "Record"} \X
                              (FieldLists("Unit") \cup FieldLists("Tuple") \cup FieldLists("Record")) :
                          kf[2] \in FieldLists(kf[1])}}
    \cup {[name |-> Absent, kind |-> "Tuple", fields |-> <<TupleField("u32")>>]}

\* the variants the later positions are drawn from: single-field variants
LaterVariants(i) ==
    { [name |-> VariantNames[i], kind |-> "Tuple", fields |-> <<TupleField("U32")>>],
      [name |-> VariantNames[i], kind |-> "Record", fields |-> <<RecordField("x", "String")>>] }

RECURSIVE VariantLists(_)
VariantLists(n) ==
    IF n = 1 THEN {<<v>> : v \in FirstVariants}
    ELSE LET shorter == VariantLists(n - 1) IN
         shorter \cup {Append(vs, v) : vs \in {s \in shorter : Len(s) = n - 1}, v \in LaterVariants(n)}

LifetimeParam(n) == [kind |-> "lifetime", name |-> n, text |-> n]

TypeParam(n, text) == [kind |-> "type", name |-> n, text |-> text]

ConstParam(n, text) == [kind |-> "const", name |-> n, text |-> text]

NoParamList == [present |-> FALSE, params |-> <<>>]

ParamList(ps) == [present |-> TRUE, params |-> ps]

GenericParamLists ==
    { NoParamList,
      ParamList(<<>>),
      ParamList(<<TypeParam("T", "T: Clone"), LifetimeParam("'a"), ConstParam("N", "const N: usize"),
                  TypeParam("U", "U"), LifetimeParam("'b")>>) }

EnumDecls ==
    {[name |-> "A", generics |-> g, variants |-> vs] :
        g \in GenericParamLists, vs \in VariantLists(MaxVariants)}
    \cup {[name |-> Absent, generics |-> NoParamList, variants |-> vs] :
        vs \in VariantLists(MaxVariants)}

(* ------------------------- document text ------------------------------- *)

\* the text in front of the enum declaration
Before == <<"type U32 = u32;\n\n">>

\* the text of a node that may be missing
Opt(t) == IF t = Absent THEN <<>> ELSE <<t>>

RECURSIVE Join(_, _)
\* the pieces of a sequence of token sequences, separated by sep
Join(pieces, sep) ==
    IF Len(pieces) = 0 THEN <<>>
    ELSE IF Len(pieces) = 1 THEN pieces[1]
    ELSE pieces[1] \o <<sep>> \o Join(Tail(pieces), sep)

FieldText(f) ==
    IF f.name = Absent THEN Opt(f.ty) ELSE <<f.name, ": ">> \o Opt(f.ty)

VariantText(v) ==
    Opt(v.name) \o
    (IF v.kind = "Unit" THEN <<>>
     ELSE IF v.kind = "Tuple"
          THEN <<"(">> \o Join([i \in 1..Len(v.fields) |-> FieldText(v.fields[i])], ", ") \o <<")">>
          ELSE <<" { ">> \o Join([i \in 1..Len(v.fields) |-> FieldText(v.fields[i])], ", ") \o <<" }">>)

\* the source text of a generic parameter list, as declared
GenericParamListText(g) ==
    <<"<">> \o Join([i \in 1..Len(g.params) |-> <<g.params[i].text>>], ", ") \o <<">">>

EnumHeaderText(e) ==
    <<"enum ">> \o Opt(e.name)
    \o (IF e.generics.present THEN GenericParamListText(e.generics) ELSE <<>>)
    \o <<" { ">>

EnumText(e) ==
    EnumHeaderText(e)
    \o Join([i \in 1..Len(e.variants) |-> VariantText(e.variants[i])], ", ")
    \o <<" }">>

DocText == Before \o EnumText(enum) \o after

EnumStart == Len(Before)

\* text_range().end() of the enum declaration
EnumEnd == Len(Before) + Len(EnumText(enum))

RECURSIVE VariantStart(_, _)
VariantStart(e, i) ==
    IF i = 1 THEN Len(Before) + Len(EnumHeaderText(e))
    ELSE VariantStart(e, i - 1) + Len(VariantText(e.variants[i - 1])) + 1

\* text_range() of the i-th variant: <<start, end>>
VariantRange(e, i) ==
    <<VariantStart(e, i), VariantStart(e, i) + Len(VariantText(e.variants[i]))>>

RECURSIVE VariantFrom(_, _, _, _)
\* the first variant from the i-th on, which starts at start, whose range holds
\* the offset; 0 if there is none
VariantFrom(e, i, start, offset) ==
    IF i > Len(e.variants) THEN 0
    ELSE LET end == start + Len(VariantText(e.variants[i]))
         IN IF start <= offset /\ offset <= end THEN i
            ELSE VariantFrom(e, i + 1, end + 1, offset)

\* the index of the variant that encloses the offset, 0 if there is none
FindVariantAtOffset(e, offset) ==
    VariantFrom(e, 1, Len(Before) + Len(EnumHeaderText(e)), offset)

\* the offsets the cursor is placed at
CursorOffsets(e) ==
    {EnumStart + 1} \cup {VariantRange(e, i)[1] : i \in 1..Len(e.variants)}

(* ------------------------- classification ------------------------------ *)

NotClassified ==
    [ok |-> FALSE, index |-> 0, variant_name |-> Absent, enum_name |-> Absent,
     enum_type_params |-> NoParamList, field_name |-> Absent, field_type |-> Absent]

Classified(i, vn, en, g, fname, fty) ==
    [ok |-> TRUE, index |-> i, variant_name |-> vn, enum_name |-> en,
     enum_type_params |-> g, field_name |-> fname, field_type |-> fty]

\* Classify without the count checks: the first field of any field list is taken
Classify_FirstFieldOfAny(e, offset) ==
    LET i == FindVariantAtOffset(e, offset) IN
    IF i = 0 THEN NotClassified
    ELSE LET variant == e.variants[i] IN
    IF variant.name = Absent \/ e.name = Absent THEN NotClassified
    ELSE IF variant.kind = "Unit" \/ Len(variant.fields) = 0 THEN NotClassified
    ELSE IF variant.fields[1].ty = Absent THEN NotClassified
    ELSE IF variant.kind = "Record" /\ variant.fields[1].name = Absent THEN NotClassified
    ELSE Classified(i, variant.name, e.name, e.generics,
                    variant.fields[1].name, variant.fields[1].ty)

\* lines 32-51 of the handler: everything before the duplicate check
Classify(e, offset) ==
    LET i == FindVariantAtOffset(e, offset) IN
    IF i = 0 THEN NotClassified
    ELSE LET variant == e.variants[i] IN
    IF variant.name = Absent THEN NotClassified
    ELSE IF e.name = Absent THEN NotClassified
    ELSE IF variant.kind = "Tuple" THEN
        IF Len(variant.fields) # 1 THEN NotClassified
        ELSE IF variant.fields[1].ty = Absent THEN NotClassified
        ELSE Classified(i, variant.name, e.name, e.generics, Absent, variant.fields[1].ty)
    ELSE IF variant.kind = "Record" THEN
        IF Len(variant.fields) # 1 THEN NotClassified
        ELSE IF variant.fields[1].name = Absent THEN NotClassified
        ELSE IF variant.fields[1].ty = Absent THEN NotClassified
        ELSE Classified(i, variant.name, e.name, e.generics,
                        variant.fields[1].name, variant.fields[1].ty)
    ELSE NotClassified

(* ------------------------- semantic service ---------------------------- *)

\* the semantic type a type's source text denotes (U32 is an alias of u32)
SignatureTy(text) == IF text = "U32" THEN "u32" ELSE text

\* the positions in the text where `From<...> for <enum>` stands
FromImplPositions(text, enumName) ==
    {i \in 1..Len(text) :
        /\ i + 3 <= Len(text)
        /\ text[i] = " From<"
        /\ text[i + 2] = "> for "
        /\ text[i + 3] = enumName}

\* does the enum's type implement From<ty> in the document?
ImplsTrait(text, enumName, ty) ==
    \E i \in FromImplPositions(text, enumName) : SignatureTy(text[i + 1]) = ty

\* existing_from_impl with the answer of impls_trait turned around
existing_from_impl_Negated(s, text, e, i) ==
    IF ~s.toDef THEN FALSE
    ELSE IF ~s.fromTrait THEN FALSE
    ELSE IF Len(e.variants[i].fields) = 0 THEN FALSE
    ELSE ~ImplsTrait(text, e.name, SignatureTy(e.variants[i].fields[1].ty))

\* existing_from_impl that looks for any From impl of the enum, whatever its type
existing_from_impl_AnyImpl(s, text, e, i) ==
    IF ~s.toDef THEN FALSE
    ELSE IF ~s.fromTrait THEN FALSE
    ELSE IF Len(e.variants[i].fields) = 0 THEN FALSE
    ELSE FromImplPositions(text, e.name) # {}

\* existing_from_impl that also takes an assist already collected for a duplicate
existing_from_impl_LooksAtAccumulator(s, text, e, i) ==
    IF acc # <<>> THEN TRUE
    ELSE IF ~s.toDef THEN FALSE
    ELSE IF ~s.fromTrait THEN FALSE
    ELSE IF Len(e.variants[i].fields) = 0 THEN FALSE
    ELSE ImplsTrait(text, e.name, SignatureTy(e.variants[i].fields[1].ty))

\* existing_from_impl that reports a duplicate when resolution fails
existing_from_impl_Strict(s, text, e, i) ==
    IF ~s.toDef THEN TRUE
    ELSE IF ~s.fromTrait THEN TRUE
    ELSE IF Len(e.variants[i].fields) = 0 THEN FALSE
    ELSE ImplsTrait(text, e.name, SignatureTy(e.variants[i].fields[1].ty))

\* existing_from_impl that compares the field's source text, not its type
existing_from_impl_ByText(s, text, e, i) ==
    IF ~s.toDef THEN FALSE
    ELSE IF ~s.fromTrait THEN FALSE
    ELSE IF Len(e.variants[i].fields) = 0 THEN FALSE
    ELSE \E k \in FromImplPositions(text, e.name) : text[k + 1] = e.variants[i].fields[1].ty

\* lines 112-131: TRUE stands for Some(()), FALSE for None
existing_from_impl(s, text, e, i) ==
    IF ~s.toDef THEN FALSE
    ELSE IF ~s.fromTrait THEN FALSE
    ELSE IF Len(e.variants[i].fields) = 0 THEN FALSE
    ELSE ImplsTrait(text, e.name, SignatureTy(e.variants[i].fields[1].ty))

(* ------------------------- synthesis ----------------------------------- *)

AssistId == "generate_from_impl_for_enum"

\* line 61; the source writes From between backquotes, which a string here cannot hold
AssistLabel == "Generate From impl for this enum variant"

IsNamedLifetime(p) == p.kind = "lifetime" /\ p.name # Absent

IsNamedType(p) == p.kind = "type" /\ p.name # Absent

NamesOf(ps) == [i \in 1..Len(ps) |-> <<ps[i].name>>]

IsNamedLifetimeOrType(p) == IsNamedLifetime(p) \/ IsNamedType(p)

\* generic_params that keeps the declaration order
generic_params_DeclarationOrder(type_params) ==
    NamesOf(SelectSeq(type_params.params, IsNamedLifetimeOrType))

\* lines 71-80: lifetime names, then type parameter names
generic_params(type_params) ==
    NamesOf(SelectSeq(type_params.params, IsNamedLifetime))
    \o NamesOf(SelectSeq(type_params.params, IsNamedType))

\* ImplBody that takes every variant for a tuple variant
ImplBody_AlwaysPositional(c) ==
    <<" {\n    fn from(", "v", ": ", c.field_type,
      ") -> Self {\n        Self::", c.variant_name, "(", "v", ")\n    }\n}">>

\* lines 83-106: the block of the impl
ImplBody(c) ==
    IF c.field_name # Absent
    THEN <<" {\n    fn from(", c.field_name, ": ", c.field_type,
           ") -> Self {\n        Self::", c.variant_name, " { ", c.field_name,
           " }\n    }\n}">>
    ELSE <<" {\n    fn from(", "v", ": ", c.field_type,
           ") -> Self {\n        Self::", c.variant_name, "(", "v", ")\n    }\n}">>

\* lines 65-106: the text of the edit
ImplText(c) ==
    <<"\n\nimpl">>
    \o (IF c.enum_type_params.present THEN GenericParamListText(c.enum_type_params) ELSE <<>>)
    \o <<" From<", c.field_type, "> for ", c.enum_name>>
    \o (IF c.enum_type_params.present
        THEN <<"<">> \o Join(generic_params(c.enum_type_params), ", ") \o <<">">>
        ELSE <<>>)
    \o ImplBody(c)

\* start_offset at the end of the variant, not of the enum
start_offset_AfterVariant(e, c) == VariantRange(e, c.index)[2]

\* line 64
start_offset(e, c) == Len(Before) + Len(EnumText(e))

\* line 58
target(e, c) == VariantRange(e, c.index)

\* lines 58-109: what acc.add records
Proposal(e, c) ==
    [id |-> AssistId, label |-> AssistLabel, target |-> target(e, c),
     edits |-> <<[offset |-> start_offset(e, c), insert |-> ImplText(c)]>>]

\* the host applies an insertion to a text
InsertAt(text, offset, insert) ==
    SubSeq(text, 1, offset) \o insert \o SubSeq(text, offset + 1, Len(text))

(* ------------------------- initial documents --------------------------- *)

\* an impl written by hand: other parameter name, other body
HandWrittenImpl(ty, enumName) ==
    <<"\n\nimpl", " From<", ty, "> for ", enumName,
      " {\n    fn from(value: ", ty, ") -> Self {\n        todo!()\n    }\n}">>

InitialAfter ==
    { <<>>,
      HandWrittenImpl("u32", "A") \o <<"\n\npub trait From<T> {\n    fn from(T) -> Self;\n}">> }

\* everything resolves; the variant does not resolve; the From trait does not resolve
SemanticContexts ==
    { [toDef |-> TRUE, fromTrait |-> TRUE],
      [toDef |-> FALSE, fromTrait |-> TRUE],
      [toDef |-> TRUE, fromTrait |-> FALSE] }

\* an assist a handler that ran earlier has put into the accumulator
OtherAssist ==
    [id |-> "add_derive", label |-> "Add #[derive]", target |-> <<0, 0>>, edits |-> <<>>]


NoPrev == [valid |-> FALSE, pc |-> "idle", added |-> <<>>]

(* ------------------------- the state machine --------------------------- *)

Init ==
    /\ enum \in EnumDecls
    /\ after \in InitialAfter
    /\ sema \in SemanticContexts
    /\ cursor = 0
    /\ pc = "idle"
    /\ cls = NotClassified
    /\ dup = "unasked"
    /\ acc = <<>>
    /\ accBefore = 0
    /\ prev = NoPrev
    /\ lastApplied = 0
    /\ nEdits = 0

\* the host calls the handler, as the first one, with the cursor's offset
Invoke ==
    /\ pc = "idle"
    /\ cursor' \in CursorOffsets(enum)
    /\ pc' = "classify"
    /\ acc' = <<>>
    /\ accBefore' = Len(acc')
    /\ UNCHANGED <<enum, after, sema, cls, dup, prev, lastApplied, nEdits>>

\* lines 32-51
ClassifyStep ==
    /\ pc = "classify"
    /\ cls' = Classify(enum, cursor)
    /\ pc' = IF cls'.ok THEN "detect" ELSE "notApplicable"
    /\ UNCHANGED <<enum, after, sema, cursor, dup, acc, accBefore, prev, lastApplied, nEdits>>

\* DetectStep without the early return
DetectStep_NoReturn ==
    /\ pc = "detect"
    /\ dup' = IF existing_from_impl(sema, DocText, enum, cls.index) THEN "dup" ELSE "nodup"
    /\ pc' = "synthesize"
    /\ UNCHANGED <<enum, after, sema, cursor, cls, acc, accBefore, prev, lastApplied, nEdits>>

\* lines 53-56
DetectStep ==
    /\ pc = "detect"
    /\ dup' = IF existing_from_impl(sema, DocText, enum, cls.index) THEN "dup" ELSE "nodup"
    /\ pc' = IF dup' = "dup" THEN "notApplicable" ELSE "synthesize"
    /\ UNCHANGED <<enum, after, sema, cursor, cls, acc, accBefore, prev, lastApplied, nEdits>>

\* lines 58-109
SynthesizeStep ==
    /\ pc = "synthesize"
    /\ acc' = Append(acc, Proposal(enum, cls))
    /\ pc' = "applicable"
    /\ UNCHANGED <<enum, after, sema, cursor, cls, dup, accBefore, prev, lastApplied, nEdits>>

\* what this invocation has added to the accumulator
Added == SubSeq(acc, accBefore + 1, Len(acc))

\* the host asks again: same document, same offset, same semantic context;
\* this time a handler that ran earlier has left its assist in the accumulator
Reinvoke ==
    /\ pc \in {"applicable", "notApplicable"}
    /\ ~prev.valid
    /\ prev' = [valid |-> TRUE, pc |-> pc, added |-> Added]
    /\ pc' = "classify"
    /\ cls' = NotClassified
    /\ dup' = "unasked"
    /\ acc' = <<OtherAssist>>
    /\ accBefore' = Len(acc')
    /\ UNCHANGED <<enum, after, sema, cursor, lastApplied, nEdits>>

\* the user accepts the proposal: the host applies its edits to the document
HostApply ==
    /\ pc = "applicable"
    /\ nEdits < MaxEdits
    /\ LET edit == acc[Len(acc)].edits[1]
           newText == InsertAt(DocText, edit.offset, edit.insert)
       IN after' = SubSeq(newText, EnumEnd + 1, Len(newText))
    /\ lastApplied' = cls.index
    /\ nEdits' = nEdits + 1
    /\ pc' = "idle"
    /\ cursor' = 0
    /\ cls' = NotClassified
    /\ dup' = "unasked"
    /\ acc' = <<>>
    /\ accBefore' = 0
    /\ prev' = NoPrev
    /\ UNCHANGED <<enum, sema>>

\* the result is shown and dropped; the document stays as it is
HostDiscard ==
    /\ pc \in {"applicable", "notApplicable"}
    /\ pc' = "idle"
    /\ cursor' = 0
    /\ cls' = NotClassified
    /\ dup' = "unasked"
    /\ acc' = <<>>
    /\ accBefore' = 0
    /\ prev' = NoPrev
    /\ UNCHANGED <<enum, after, sema, lastApplied, nEdits>>

Next ==
    \/ Invoke
    \/ ClassifyStep
    \/ DetectStep
    \/ SynthesizeStep
    \/ Reinvoke
    \/ HostApply
    \/ HostDiscard

Spec == Init /\ [][Next]_vars

\* a step of the handler
HandlerStep == ClassifyStep \/ DetectStep \/ SynthesizeStep

TypeOK ==
    /\ pc \in {"idle", "classify", "detect", "synthesize", "applicable", "notApplicable"}
    /\ dup \in {"unasked", "dup", "nodup"}
    /\ Len(acc) <= accBefore + 1
    /\ nEdits \in 0..MaxEdits

(* ------------------------- vocabulary of the properties ---------------- *)

AtTerminal == pc \in {"applicable", "notApplicable"}

\* the variant under the cursor (0: none)
CursorVariant == FindVariantAtOffset(enum, cursor)

FieldCount(i) == Len(enum.variants[i].fields)

\* the single field of variant i
TheField(i) == enum.variants[i].fields[1]

\* what the classification asks of the tree, read off the tree
Supported(i) ==
    /\ i # 0
    /\ enum.name # Absent
    /\ enum.variants[i].name # Absent
    /\ enum.variants[i].kind \in {"Tuple", "Record"}
    /\ FieldCount(i) = 1
    /\ TheField(i).ty # Absent
    /\ enum.variants[i].kind = "Record" => TheField(i).name # Absent

\* the From impls for the enum that stand in the text after the enum: the
\* positions of those whose source type denotes the type that ty denotes
ImplsFor(ty) ==
    {k \in 1..(Len(after) - 3) :
        /\ after[k] = " From<"
        /\ SignatureTy(after[k + 1]) = SignatureTy(ty)
        /\ after[k + 2] = "> for "
        /\ after[k + 3] = enum.name}

SemaResolves == sema.toDef /\ sema.fromTrait

\* the proposal this invocation has added, and the text it inserts
TheProposal == acc[Len(acc)]

TheInsert == TheProposal.edits[1].insert

\* the number of tokens the enum's generic parameter list takes in the text
GenericsLen ==
    IF enum.generics.present
    THEN (IF Len(enum.generics.params) = 0 THEN 2 ELSE 2 * Len(enum.generics.params) + 1)
    ELSE 0

(* ------------------------- C1 ------------------------------------------ *)

\* C1: no proposal is ever added for a cursor that is in no variant or in a
\* variant whose field count is not 1 (unit, tuple or record); whenever a
\* proposal has been added, the variant under the cursor has exactly one field.
C1_OnlySingleFieldVariants ==
    LET cv == CursorVariant IN
        /\ Added # <<>> => (cv # 0 /\ FieldCount(cv) = 1)
        /\ (AtTerminal /\ cv # 0 /\ FieldCount(cv) # 1)
              => (pc = "notApplicable" /\ Added = <<>>)

C1_Witness ==
    LET cv == CursorVariant IN
        /\ pc = "notApplicable"
        /\ cv # 0
        /\ enum.variants[cv].kind = "Tuple"
        /\ FieldCount(cv) >= 2

(* ------------------------- C2 ------------------------------------------ *)

\* C2 as stated: whenever a From impl for the exact field type of the variant
\* under the cursor stands in the document, the invocation ends without a proposal.
C2_AsStated ==
    LET cv == CursorVariant IN
        (AtTerminal /\ Supported(cv)
            /\ \E k \in ImplsFor(TheField(cv).ty) :
                  after[k + 1] = TheField(cv).ty)
        => (pc = "notApplicable" /\ Added = <<>>)

\* C2 amended: the same, provided the variant resolves to its definition and
\* the From trait resolves in the crate that owns the enum.
C2_NoProposalWhenImplExists ==
    LET cv == CursorVariant IN
        (AtTerminal /\ Supported(cv) /\ SemaResolves
            /\ \E k \in ImplsFor(TheField(cv).ty) :
                  after[k + 1] = TheField(cv).ty)
        => (pc = "notApplicable" /\ Added = <<>>)

\* the impl that blocks is the hand-written one (parameter `value`, body todo!())
C2_Witness ==
    LET cv == CursorVariant IN
        /\ pc = "notApplicable"
        /\ Supported(cv)
        /\ SemaResolves
        /\ nEdits = 0
        /\ ImplsFor(TheField(cv).ty) # {}

(* ------------------------- C3 ------------------------------------------ *)

\* C3: a From impl for another type does not block the proposal: a supported
\* variant whose own field type has no From impl receives a proposal that
\* generates From<its field type>; and when the detector blocks a supported
\* variant, a From impl for that variant's own field type stands in the document.
C3_CrossVariantIndependence ==
    LET cv == CursorVariant IN
        /\ (AtTerminal /\ Supported(cv) /\ ImplsFor(TheField(cv).ty) = {})
              => /\ pc = "applicable"
                 /\ \E k \in 1..(Len(TheInsert) - 1) :
                       TheInsert[k] = " From<" /\ TheInsert[k + 1] = TheField(cv).ty
        /\ (pc = "notApplicable" /\ Supported(cv))
              => ImplsFor(TheField(cv).ty) # {}

\* variant B gets its proposal while a From impl for variant A's type exists
C3_Witness ==
    LET cv == CursorVariant IN
        /\ pc = "applicable"
        /\ SemaResolves
        /\ \E a \in 1..Len(enum.variants) :
              /\ a # cv
              /\ Supported(a)
              /\ SignatureTy(TheField(a).ty) # SignatureTy(TheField(cv).ty)
              /\ ImplsFor(TheField(a).ty) # {}

(* ------------------------- C4 ------------------------------------------ *)

\* the last nine tokens of the inserted text: the block of the impl
BlockOf(text) == SubSeq(text, Len(text) - 8, Len(text))

\* C4: the function is named `from`; for a tuple variant V(T) the block is
\* `fn from(v: T) -> Self { Self::V(v) }`, for a record variant V { n: T } it is
\* `fn from(n: T) -> Self { Self::V { n } }`; the header reads
\* `impl From<T> for E` (a generic enum has its parameter lists after `impl`
\* and after E), with T the field type's source text and E the enum's name.
C4_BlockFollowsShape ==
    LET cv == CursorVariant IN
        pc = "applicable" =>
            LET v == enum.variants[cv]
                f == TheField(cv)
            IN /\ TheInsert[1] = "\n\nimpl"
               /\ SubSeq(TheInsert, 2 + GenericsLen, 5 + GenericsLen)
                     = <<" From<", f.ty, "> for ", enum.name>>
               /\ ~enum.generics.present => Len(TheInsert) = 14
               /\ v.kind = "Tuple" =>
                     BlockOf(TheInsert)
                        = <<" {\n    fn from(", "v", ": ", f.ty,
                            ") -> Self {\n        Self::", v.name, "(", "v", ")\n    }\n}">>
               /\ v.kind = "Record" =>
                     BlockOf(TheInsert)
                        = <<" {\n    fn from(", f.name, ": ", f.ty,
                            ") -> Self {\n        Self::", v.name, " { ", f.name, " }\n    }\n}">>

C4_Witness ==
    LET cv == CursorVariant IN
        /\ pc = "applicable"
        /\ enum.variants[cv].kind = "Record"
        /\ TheField(cv).name = "x"

(* ------------------------- C5 ------------------------------------------ *)

\* the names of the list `<n1, n2, ...>` that starts at position k of a text
\* holding cnt names
NamesAt(text, k, cnt) == [j \in 1..cnt |-> text[k + 2 * j - 1]]

\* the declared parameter with a given name
ParamNamed(n) == CHOOSE q \in 1..Len(enum.generics.params) : enum.generics.params[q].name = n

ListedParams ==
    {q \in 1..Len(enum.generics.params) : enum.generics.params[q].kind \in {"lifetime", "type"}}

\* C5: for an enum with a generic parameter list the inserted text carries the
\* list as declared directly after `impl`, and after the enum's name a list of
\* names only: every lifetime name in declaration order, then every type
\* parameter name in declaration order; without a generic parameter list
\* neither list is there.
C5_GenericParameterLists ==
    pc = "applicable" =>
        IF enum.generics.present
        THEN LET cnt == Cardinality(ListedParams)
                 at == 6 + GenericsLen
                 names == NamesAt(TheInsert, at, cnt)
             IN /\ SubSeq(TheInsert, 2, 1 + GenericsLen)
                      = SubSeq(DocText, Len(Before) + 3, Len(Before) + 2 + GenericsLen)
                /\ TheInsert[at] = "<"
                /\ TheInsert[at + (IF cnt = 0 THEN 1 ELSE 2 * cnt)] = ">"
                /\ Len(TheInsert) = 14 + GenericsLen + (IF cnt = 0 THEN 2 ELSE 2 * cnt + 1)
                /\ {ParamNamed(names[j]) : j \in 1..cnt} = ListedParams
                /\ \A j, k \in 1..cnt : j < k =>
                      LET pj == enum.generics.params[ParamNamed(names[j])]
                          pk == enum.generics.params[ParamNamed(names[k])]
                      IN /\ TheInsert[at + 2 * j] = ", "
                         /\ ~(pj.kind = "type" /\ pk.kind = "lifetime")
                         /\ pj.kind = pk.kind => ParamNamed(names[j]) < ParamNamed(names[k])
        ELSE /\ TheInsert[2] = " From<"
             /\ TheInsert[5] = enum.name
             /\ Len(TheInsert) = 14

\* a type parameter is declared in front of a lifetime
C5_Witness ==
    /\ pc = "applicable"
    /\ enum.generics.present
    /\ \E j, k \in 1..Len(enum.generics.params) :
          /\ j < k
          /\ enum.generics.params[j].kind = "type"
          /\ enum.generics.params[k].kind = "lifetime"

(* ------------------------- C6 ------------------------------------------ *)

\* the proposal is one insertion at the end of the enum; its range is the variant's
C6_OneInsertionAtEnumEnd ==
    LET cv == CursorVariant
        doc == DocText
    IN  pc = "applicable" =>
            /\ Len(Added) = 1
            /\ Len(TheProposal.edits) = 1
            /\ TheProposal.edits[1].offset = Len(doc) - Len(after)
            /\ doc[TheProposal.edits[1].offset] = " }"
            /\ TheInsert[1] = "\n\nimpl"
            /\ TheProposal.target = VariantRange(enum, cv)
            /\ TheProposal.target[2] <= TheProposal.edits[1].offset

\* applying the edit keeps the text on both sides of the offset
C6_ApplyKeepsBothSides ==
    (pc = "applicable" /\ nEdits' = nEdits + 1) =>
        LET off == TheProposal.edits[1].offset
            old == DocText
            new == DocText'
        IN /\ Len(new) = Len(old) + Len(TheInsert)
           /\ SubSeq(new, 1, off) = SubSeq(old, 1, off)
           /\ SubSeq(new, off + 1, off + Len(TheInsert)) = TheInsert
           /\ SubSeq(new, off + Len(TheInsert) + 1, Len(new)) = SubSeq(old, off + 1, Len(old))

\* the handler itself writes nothing to the document: neither to the enum nor
\* to the text after it (the text before it is fixed)
C6_HandlerKeepsDocument ==
    (pc \in {"classify", "detect", "synthesize"} /\ pc' # pc)
        => (after' = after /\ enum' = enum)

\* C6: every proposal is exactly one edit, an insertion at the end offset of the
\* enum declaration whose text begins with two newlines; applying it leaves the
\* text before and after that offset as it was; the proposal's range is the text
\* range of the variant under the cursor.
C6_PureInsertion ==
    /\ []C6_OneInsertionAtEnumEnd
    /\ [][C6_ApplyKeepsBothSides]_vars
    /\ [][C6_HandlerKeepsDocument]_vars

\* an edit has been applied in front of an impl and a trait that follow the enum
C6_Witness ==
    /\ nEdits >= 1
    /\ Len(after) > 14
    /\ after[Len(after)] = "\n\npub trait From<T> {\n    fn from(T) -> Self;\n}"

(* ------------------------- C7 ------------------------------------------ *)

C8_Order ==
    LET cv == CursorVariant IN
        /\ pc = "classify" => (dup = "unasked" /\ Added = <<>>)
        /\ pc = "detect" => (Supported(cv) /\ dup = "unasked" /\ Added = <<>>)
        /\ pc = "synthesize" => (Supported(cv) /\ dup = "nodup" /\ Added = <<>>)
        /\ dup # "unasked" => Supported(cv)
        /\ dup = "dup" => Added = <<>>
        /\ AtTerminal => (pc = "applicable" <=> (Supported(cv) /\ dup = "nodup"))
        /\ pc = "applicable" =>
              /\ Len(Added) = 1
              /\ Added[1].label = "Generate From impl for this enum variant"
              /\ Added[1].id = "generate_from_impl_for_enum"
        /\ pc = "notApplicable" => Added = <<>>
        /\ Added # <<>> => pc = "applicable"

\* each position is left for the next one or for a terminal state, a terminal
\* state only by the host
C8_StepByStep ==
    LET cv == CursorVariant IN
        /\ pc = "idle" => pc' \in {"idle", "classify"}
        /\ pc = "classify" => pc' \in {"classify", "detect", "notApplicable"}
        /\ pc = "detect" => pc' \in {"detect", "synthesize", "notApplicable"}
        /\ pc = "synthesize" => pc' \in {"synthesize", "applicable"}
        /\ (AtTerminal /\ pc' # pc) => (pc' \in {"idle", "classify"} /\ Added' = <<>>)
        /\ (pc \in {"classify", "detect", "synthesize"} /\ pc' # pc)
              => (cursor' = cursor /\ sema' = sema /\ after' = after /\ enum' = enum)
        /\ (pc = "classify" /\ pc' = "notApplicable") => ~Supported(cv)
        /\ (pc = "detect" /\ pc' = "notApplicable") => dup' = "dup"

C9_PermissiveDefault ==
    LET cv == CursorVariant IN
        (AtTerminal /\ Supported(cv) /\ ~SemaResolves)
            => (pc = "applicable" /\ Len(Added) = 1 /\ dup = "nodup")

\* the trait does not resolve, and an impl for the field type is in the document
C9_Witness ==
    LET cv == CursorVariant IN
        /\ pc = "applicable"
        /\ sema.toDef
        /\ ~sema.fromTrait
        /\ ImplsFor(TheField(cv).ty) # {}

(* ------------------------- C10 ----------------------------------------- *)

\* C10: with a semantic context that resolves the variant and the From trait
\* and sees the current document, applying proposals never leaves two From
\* impls for the enum with the same source type, and an invocation at the
\* variant whose proposal was applied last ends without a proposal.
C10_NoDuplicateByRepeatedUse ==
    LET cv == CursorVariant IN
        SemaResolves =>
            /\ \A ty \in TypeTexts : Cardinality(ImplsFor(ty)) <= 1
            /\ (AtTerminal /\ lastApplied # 0 /\ cv = lastApplied)
                  => (pc = "notApplicable" /\ Added = <<>>)

\* the proposal of a variant was applied and the variant is asked again
C10_Witness ==
    LET cv == CursorVariant IN
        /\ SemaResolves
        /\ nEdits >= 1
        /\ pc = "notApplicable"
        /\ cv = lastApplied

====
